---- MODULE Spec2Model ----
(***************************************************************************)
(* A model of pattern_agentic_messaging: PASlimSession (session.py) and    *)
(* the multiplex stream PASlimApp.messages (app.py), as asyncio tasks that *)
(* interleave at their suspension points.                                  *)
(***************************************************************************)
EXTENDS Integers, Sequences, FiniteSets, TLC

\* ------------------------------------------------------------------ bounds
MaxMsgs == 2        \* frames the transport delivers on one session
MaxRequests == 1    \* request() calls made on the session
MaxSends == 1       \* plain send() calls that reach the transport
MaxHandlers == 3    \* registrations made with app.on_message

Sessions == {"s1", "s2"}
UserSession == "s1"                 \* the session the application drives by hand
RequestIds == 1..MaxRequests        \* request r carries the fresh uuid4 r
CallbackOrder == <<"cbRaises", "cbOk">>   \* the callbacks the application registers, in order

\* The value under _request_id, as a tuple: none, the uuid4 of request r, a
\* hashable value no request() of this session made, a JSON array.
NoId == <<>>
Uuid(r) == <<r>>
ForeignId == <<0>>
Unhashable == <<0, 0>>
NoReply == 0                        \* frame numbers start at 1

VARIABLES
    closed,          \* self._closed
    queue,           \* self._queue
    readTask,        \* self._read_task: none | running | cancelling | finished | cancelled
    callbacks,       \* self._callbacks
    pending,         \* the keys of self._pending_requests
    future,          \* per request(): its asyncio.Future, [state, result]
    reqPc,           \* per request(): where the call stands
    reqTimeout,      \* per request(): the timeout argument
    received,        \* history: what get_message() gave the receive loop
    cbLog,           \* history: <<callback, frame number>> in invocation order
    enqueued,        \* history: frame numbers put on self._queue, in order
    published,       \* number of self._session.publish calls
    exitPc,          \* __aexit__ of the application's scope: idle | awaiting | returned
    iterPc,          \* __anext__ of the application: idle | blocked | stopped
    iterated,        \* history: frame numbers __anext__ returned to the application
    sendResult       \* how the application's last send() ended

sessionVars == <<closed, queue, readTask, callbacks, pending, future, reqPc, reqTimeout,
                 received, cbLog, enqueued, published, exitPc, iterPc, iterated, sendResult>>

VARIABLES
    listener,        \* listener_task: none | running | cancelling | failed | cancelled
    reader,          \* per session, its session_reader task
    readerCancel,    \* per session: task.cancel() was called on the reader and not yet delivered
    sessionTasks,    \* session_tasks
    messageQueue,    \* message_queue
    muxPc,           \* the messages() generator
    muxResult,       \* how the stream ended for the consumer
    gathered,        \* the tasks handed to asyncio.gather
    yielded,         \* history: per session, the frame numbers the stream yielded
    connectCalls,    \* history: per session, calls of the connect hook
    disconnectCalls  \* history: per session, calls of the disconnect hook

muxVars == <<listener, reader, readerCancel, sessionTasks, messageQueue, muxPc,
             muxResult, gathered, yielded, connectCalls, disconnectCalls>>

VARIABLES
    messageHandlers, \* self._message_handlers: the registrations, in order
    running,         \* self._running
    runPc,           \* _run_async: idle | iterating | body | done | raised
    current,         \* the (session, msg) pair the async for of _run_async received
    runLog,          \* history: the handler calls and log records made for that pair
    dispatched,      \* history: how many pairs the loop body handled
    errorsLogged     \* history: how many logger.error records were made

dispatchVars == <<messageHandlers, running, runPc, current, runLog, dispatched, errorsLogged>>

VARIABLES
    codecPayload,    \* the argument of the last encode_message call
    codecData,       \* what that call made of it, or bytes a peer sent: [raised, value]
    codecDecoded,    \* what the last decode_message call made of bytes: [raised, value]
    codecPc          \* idle | encoded | received | decoded

codecVars == <<codecPayload, codecData, codecDecoded, codecPc>>

vars == <<sessionVars, muxVars, dispatchVars, codecVars>>

\* ------------------------------------------------------------------ codec
\* A byte string, by what decode_message finds in it: bytes that are no UTF-8
\* ("bytes"), UTF-8 holding NUL ("nul"), UTF-8 that is no JSON ("text"), a JSON
\* object ("dict"), other JSON, and JSON on which json.loads raises an error
\* that is no JSONDecodeError, such as an integer of 5000 digits or 200000
\* nested arrays ("undecodable").
Forms == {"bytes", "nul", "text", "dict", "json_number", "json_array", "json_string",
          "json_true", "json_null", "undecodable"}

Frame(form, rid, n) == [form |-> form, rid |-> rid, n |-> n]

\* The spellings of the codec's values. "<FF>" stands for a byte that is no
\* UTF-8, "<NUL>" for the character NUL, "1...1" for 5000 digits.
Spellings == {"<FF>", "a<NUL>b", "hello", "123", "{}", "{\"k\": \"v\"}", "[1]", "\"x\"",
              "true", "null", "1...1"}

\* What the bytes spelled chars are to decode_message.
FormOf(chars) ==
    CASE chars = "<FF>" -> "bytes"
      [] chars = "a<NUL>b" -> "nul"
      [] chars = "hello" -> "text"
      [] chars = "123" -> "json_number"
      [] chars \in {"{}", "{\"k\": \"v\"}"} -> "dict"
      [] chars = "[1]" -> "json_array"
      [] chars = "\"x\"" -> "json_string"
      [] chars = "true" -> "json_true"
      [] chars = "null" -> "json_null"
      [] chars = "1...1" -> "undecodable"

\* A value of the codec: its Python type (form) and its spelling.
Value(form, chars) == [form |-> form, chars |-> chars]

\* The bytes spelled chars.
Bytes(chars) == Value(FormOf(chars), chars)

ByteStrings == {Bytes(chars) : chars \in Spellings}

\* The arguments of encode_message: bytes, str and dict values, and an int.
Payloads ==
    {Value("bytes", chars) : chars \in {"<FF>", "hello"}}
    \cup {Value("text", chars) : chars \in {"hello", "123", "{}", "\"x\"", "null", "a<NUL>b"}}
    \cup {Value("dict", chars) : chars \in {"{}", "{\"k\": \"v\"}"}}
    \cup {Value("int", "123")}

\* messages.py:6-16  bytes pass, str is encoded as UTF-8, a dict is dumped as
\* JSON; anything else raises SerializationError.
encode_message(p) ==
    IF p.form \in {"bytes", "text", "dict"}
    THEN [raised |-> FALSE, value |-> Bytes(p.chars)]
    ELSE [raised |-> TRUE, value |-> p]

\* messages.py:24  the type of what json.loads returns
LoadedForm(form) ==
    CASE form = "dict" -> "dict"
      [] form = "json_number" -> "int"
      [] form = "json_array" -> "list"
      [] form = "json_string" -> "text"
      [] form = "json_true" -> "bool"
      [] form = "json_null" -> "None"

\* messages.py:19-28  the type of what decode_message returns
DecodedForm(form) ==
    CASE form \in {"bytes", "nul"} -> "bytes"
      [] form = "text" -> "text"
      [] OTHER -> LoadedForm(form)

\* json.loads of a string literal returns the string without its quotes.
Loaded(b) ==
    IF b.form = "json_string"
    THEN [b EXCEPT !.form = "text", !.chars = "x"]
    ELSE [b EXCEPT !.form = DecodedForm(b.form)]

\* messages.py:18-28  decode_message: bytes that are not UTF-8 or hold NUL stay
\* bytes, text that is no JSON stays text, JSON is loaded; an error of
\* json.loads that is no JSONDecodeError leaves the function.
decode_message(b) ==
    IF b.form = "undecodable" THEN [raised |-> TRUE, value |-> b]
    ELSE [raised |-> FALSE, value |-> Loaded(b)]

\* encode_message is called with p.
Encode ==
    \E p \in Payloads :
        /\ codecPayload' = p
        /\ codecData' = encode_message(p)
        /\ codecPc' = "encoded"
        /\ UNCHANGED <<codecDecoded, sessionVars, muxVars, dispatchVars>>

\* A peer sends bytes of its own.
PeerSends ==
    \E b \in ByteStrings :
        /\ codecData' = [raised |-> FALSE, value |-> b]
        /\ codecPc' = "received"
        /\ UNCHANGED <<codecPayload, codecDecoded, sessionVars, muxVars, dispatchVars>>

\* decode_message is called with the bytes.
Decode ==
    /\ codecPc \in {"encoded", "received"}
    /\ ~codecData.raised
    /\ codecDecoded' = decode_message(codecData.value)
    /\ codecPc' = "decoded"
    /\ UNCHANGED <<codecPayload, codecData, sessionVars, muxVars, dispatchVars>>

\* ------------------------------------------------------------------ session
Update(f, s, v) == [f EXCEPT ![s] = v]

NextNumber(s) == Len(received[s]) + 1

\* Frames the peer of a hand-driven session may send as its frame number n.
SessionFrames(n) ==
    {Frame("text", NoId, n), Frame("undecodable", NoId, n)}
    \cup {Frame("dict", rid, n) : rid \in {NoId, ForeignId, Unhashable} \cup {Uuid(r) : r \in RequestIds}}

\* Frames the peer of an accepted session may send as its frame number n.
MuxFrames(n) == {Frame("text", NoId, n), Frame("dict", Unhashable, n)}

\* session.py:24  isinstance(decoded, dict) and "_request_id" in decoded
HasRequestId(decoded) == decoded.form = "dict" /\ decoded.rid # NoId

\* session.py:26  request_id in self._pending_requests  (hashes request_id)
LookupRaises(decoded) == decoded.rid = Unhashable

IsPendingRequest(s, decoded) == \E r \in pending[s] : decoded.rid = Uuid(r)

\* session.py:27  Future.set_result raises InvalidStateError unless the future is pending
SetResultRaises(rid) == future[rid[1]].state # "pending"

\* Fault variant of InvokeCallbacks: the exception of a callback ends the for
\* loop over the callbacks.
InvokeCallbacksUntilRaise(s, decoded) ==
    cbLog[s] \o [i \in 1..(IF Len(callbacks[s]) > 0 /\ callbacks[s][1] = "cbRaises"
                             THEN 1 ELSE Len(callbacks[s]))
                    |-> <<callbacks[s][i], decoded.n>>]

\* session.py:30-39  every callback is called (its exception swallowed), then queue.put
InvokeCallbacks(s, decoded) ==
    cbLog[s] \o [i \in 1..Len(callbacks[s]) |-> <<callbacks[s][i], decoded.n>>]

Deliver(s, decoded) ==
    /\ cbLog' = Update(cbLog, s, InvokeCallbacks(s, decoded))
    /\ queue' = Update(queue, s, Append(queue[s], decoded))
    /\ enqueued' = Update(enqueued, s, Append(enqueued[s], decoded.n))
    /\ UNCHANGED <<future, readTask>>

\* Fault variant of LoopBreaks: a failure in one session's loop ends the loop of
\* every session.
LoopBreaksAll(s) ==
    /\ readTask' = [t \in Sessions |-> IF t = s \/ readTask[t] = "running"
                                       THEN "finished" ELSE readTask[t]]
    /\ UNCHANGED <<cbLog, queue, enqueued, future>>

\* session.py:40-42  except Exception: if not self._closed: break
LoopBreaks(s) ==
    /\ readTask' = Update(readTask, s, "finished")
    /\ UNCHANGED <<cbLog, queue, enqueued, future>>

\* session.py:27-28  resolve the waiter and continue
ResolveWaiter(s, decoded) ==
    /\ future' = Update(future, decoded.rid[1], [state |-> "done", result |-> decoded.n])
    /\ UNCHANGED <<cbLog, queue, enqueued, readTask>>

\* One iteration of _read_loop, from get_message returning data to the next
\* get_message; the callbacks are plain functions and the queue is unbounded, so
\* the iteration has no suspension point of its own.
ReadLoopBody(s, data) ==
    LET d == decode_message(data) IN
    IF d.raised THEN LoopBreaks(s)
    ELSE IF HasRequestId(d.value)
         THEN IF LookupRaises(d.value) THEN LoopBreaks(s)
              ELSE IF IsPendingRequest(s, d.value)
                   THEN IF SetResultRaises(d.value.rid) THEN LoopBreaks(s)
                        ELSE ResolveWaiter(s, d.value)
                   ELSE Deliver(s, d.value)
         ELSE Deliver(s, d.value)

ReadLoopReceive(s, data) ==
    /\ readTask[s] = "running"
    /\ ~closed[s]
    /\ Len(received[s]) < MaxMsgs
    /\ received' = Update(received, s, Append(received[s], data))
    /\ ReadLoopBody(s, data)
    /\ UNCHANGED <<closed, callbacks, pending, reqPc, reqTimeout, published, exitPc,
                   iterPc, iterated, sendResult, muxVars, dispatchVars, codecVars>>

\* get_message raises: the session ended at the transport.
ReadLoopTransportError(s) ==
    /\ readTask[s] = "running"
    /\ ~closed[s]
    /\ Len(received[s]) < MaxMsgs
    /\ received' = Update(received, s, Append(received[s], Frame("error", NoId, NextNumber(s))))
    /\ LoopBreaks(s)
    /\ UNCHANGED <<closed, callbacks, pending, reqPc, reqTimeout, published, exitPc,
                   iterPc, iterated, sendResult, muxVars, dispatchVars, codecVars>>

\* while not self._closed: a loop started on a closed session ends at once.
ReadLoopEnd(s) ==
    /\ readTask[s] = "running"
    /\ closed[s]
    /\ readTask' = Update(readTask, s, "finished")
    /\ UNCHANGED <<closed, queue, callbacks, pending, future, reqPc, reqTimeout, received,
                   cbLog, enqueued, published, exitPc, iterPc, iterated, sendResult, muxVars, dispatchVars, codecVars>>

\* The CancelledError of self._read_task.cancel() reaches the loop at its await.
ReadLoopCancelled(s) ==
    /\ readTask[s] = "cancelling"
    /\ readTask' = Update(readTask, s, "cancelled")
    /\ UNCHANGED <<closed, queue, callbacks, pending, future, reqPc, reqTimeout, received,
                   cbLog, enqueued, published, exitPc, iterPc, iterated, sendResult, muxVars, dispatchVars, codecVars>>

\* __aenter__
aenter(s) == readTask' = Update(readTask, s, "running")

\* Fault variant of aexit: a session without a receive task is left open.
aexitOnlyEntered(s) ==
    /\ closed' = Update(closed, s, closed[s] \/ readTask[s] # "none")
    /\ readTask' = Update(readTask, s, IF readTask[s] = "running" THEN "cancelling"
                                       ELSE readTask[s])

\* __aexit__ up to its await: closed is set and the receive task is cancelled.
aexit(s) ==
    /\ closed' = Update(closed, s, TRUE)
    /\ readTask' = Update(readTask, s, IF readTask[s] = "running" THEN "cancelling"
                                       ELSE readTask[s])

\* Fault variant of ReadTaskOver: __aexit__ cancels the task and returns without
\* awaiting it.
ReadTaskNotAwaited(s) == TRUE

\* await self._read_task returns (or raises the CancelledError that is swallowed).
ReadTaskOver(s) == readTask[s] \in {"none", "finished", "cancelled"}

\* ------------------------------------------------------------------ session API
\* async with session: (entering)
Enter ==
    LET s == UserSession IN
    /\ readTask[s] \in {"none", "finished", "cancelled"}
    /\ exitPc[s] # "awaiting"
    /\ aenter(s)
    /\ UNCHANGED <<closed, queue, callbacks, pending, future, reqPc, reqTimeout, received,
                   cbLog, enqueued, published, exitPc, iterPc, iterated, sendResult, muxVars, dispatchVars, codecVars>>

\* __aexit__ is called; it returns at once when there is no task to await.
ExitCall ==
    LET s == UserSession IN
    /\ exitPc[s] # "awaiting"
    /\ aexit(s)
    /\ exitPc' = Update(exitPc, s, "awaiting")
    /\ UNCHANGED <<queue, callbacks, pending, future, reqPc, reqTimeout, received,
                   cbLog, enqueued, published, iterPc, iterated, sendResult, muxVars, dispatchVars, codecVars>>

ExitReturn ==
    LET s == UserSession IN
    /\ exitPc[s] = "awaiting"
    /\ ReadTaskOver(s)
    /\ exitPc' = Update(exitPc, s, "returned")
    /\ UNCHANGED <<closed, queue, readTask, callbacks, pending, future, reqPc, reqTimeout,
                   received, cbLog, enqueued, published, iterPc, iterated, sendResult, muxVars, dispatchVars, codecVars>>

\* session.py:75-76
on_message(s, cb) == callbacks' = Update(callbacks, s, Append(callbacks[s], cb))

\* The application registers its next callback, before it enters the session.
OnMessage ==
    LET s == UserSession IN
    /\ Len(callbacks[s]) < Len(CallbackOrder)
    /\ readTask[s] = "none"
    /\ on_message(s, CallbackOrder[Len(callbacks[s]) + 1])
    /\ UNCHANGED <<closed, queue, readTask, pending, future, reqPc, reqTimeout, received,
                   cbLog, enqueued, published, exitPc, iterPc, iterated, sendResult, muxVars, dispatchVars, codecVars>>

\* send(payload): out is what encode_message and the transport's publish do.
SendOutcomes == {"ok", "TransportError"}

\* session.py:70-73
send(s, out) ==
    IF closed[s] THEN /\ sendResult' = "SessionClosedError"
                      /\ UNCHANGED published
    ELSE /\ sendResult' = out
         /\ published' = Update(published, s, published[s] + 1)

Send(out) ==
    LET s == UserSession IN
    /\ published[s] < MaxSends + MaxRequests
    /\ send(s, out)
    /\ UNCHANGED <<closed, queue, readTask, callbacks, pending, future, reqPc, reqTimeout,
                   received, cbLog, enqueued, exitPc, iterPc, iterated, muxVars, dispatchVars, codecVars>>

\* The timeout argument of request(): None, 0, or a positive number.
TimeoutValues == {"None", "zero", "positive"}

\* session.py:94  if timeout:
TimerArmed(tmo) == tmo = "positive"

\* Where a request() call has returned or raised.
RequestOver == {"returned", "raised_closed", "raised_send", "raised_timeout", "raised_cancelled"}

\* session.py:78-91: the closed check, the waiter, the tag and the send. out is
\* what the send does; "CancelledError" is the caller cancelled inside it.
RequestCall(r, tmo, out) ==
    LET s == UserSession IN
    /\ reqPc[r] = "idle"
    /\ \A q \in RequestIds : q < r => reqPc[q] \in RequestOver
    /\ IF closed[s]
       THEN /\ reqPc' = Update(reqPc, r, "raised_closed")
            /\ UNCHANGED <<pending, future, published, reqTimeout>>
       ELSE /\ pending' = Update(pending, s, pending[s] \cup {r})
            /\ future' = Update(future, r, [state |-> "pending", result |-> NoReply])
            /\ reqTimeout' = Update(reqTimeout, r, tmo)
            /\ published' = Update(published, s, published[s] + 1)
            /\ reqPc' = Update(reqPc, r, IF out = "ok" THEN "waiting" ELSE "raised_send")
    /\ UNCHANGED <<closed, queue, readTask, callbacks, received, cbLog, enqueued, exitPc,
                   iterPc, iterated, sendResult, muxVars, dispatchVars, codecVars>>

\* session.py:100-101  finally: self._pending_requests.pop(request_id, None)
PopWaiter(s, r) == pending' = Update(pending, s, pending[s] \ {r})

\* The future was resolved: the await returns the reply.
RequestReturn(r) ==
    /\ reqPc[r] = "waiting"
    /\ future[r].state = "done"
    /\ PopWaiter(UserSession, r)
    /\ reqPc' = Update(reqPc, r, "returned")
    /\ UNCHANGED <<closed, queue, readTask, callbacks, future, reqTimeout, received, cbLog,
                   enqueued, published, exitPc, iterPc, iterated, sendResult, muxVars, dispatchVars, codecVars>>

\* The timer of wait_for fires first: wait_for cancels the future and waits for
\* the cancellation to land before it raises.
RequestTimerFires(r) ==
    /\ reqPc[r] = "waiting"
    /\ TimerArmed(reqTimeout[r])
    /\ future[r].state = "pending"
    /\ future' = Update(future, r, [state |-> "cancelled", result |-> NoReply])
    /\ reqPc' = Update(reqPc, r, "timing_out")
    /\ UNCHANGED <<closed, queue, readTask, callbacks, pending, reqTimeout, received, cbLog,
                   enqueued, published, exitPc, iterPc, iterated, sendResult, muxVars, dispatchVars, codecVars>>

\* session.py:98-101  asyncio.TimeoutError becomes the package's TimeoutError
RequestTimeoutRaise(r) ==
    /\ reqPc[r] = "timing_out"
    /\ PopWaiter(UserSession, r)
    /\ reqPc' = Update(reqPc, r, "raised_timeout")
    /\ UNCHANGED <<closed, queue, readTask, callbacks, future, reqTimeout, received, cbLog,
                   enqueued, published, exitPc, iterPc, iterated, sendResult, muxVars, dispatchVars, codecVars>>

\* The task awaiting the reply is cancelled: the future it awaits is cancelled
\* with it.
RequestCancel(r) ==
    /\ reqPc[r] = "waiting"
    /\ future' = Update(future, r, IF future[r].state = "pending"
                                   THEN [state |-> "cancelled", result |-> NoReply]
                                   ELSE future[r])
    /\ reqPc' = Update(reqPc, r, "cancelling")
    /\ UNCHANGED <<closed, queue, readTask, callbacks, pending, reqTimeout, received, cbLog,
                   enqueued, published, exitPc, iterPc, iterated, sendResult, muxVars, dispatchVars, codecVars>>

RequestCancelRaise(r) ==
    /\ reqPc[r] = "cancelling"
    /\ PopWaiter(UserSession, r)
    /\ reqPc' = Update(reqPc, r, "raised_cancelled")
    /\ UNCHANGED <<closed, queue, readTask, callbacks, future, reqTimeout, received, cbLog,
                   enqueued, published, exitPc, iterPc, iterated, sendResult, muxVars, dispatchVars, codecVars>>

\* Fault variant of anext_stops: __anext__ without its closed check.
anext_never_stops(s) == FALSE

\* session.py:60-67  __anext__ up to its await
anext_stops(s) == closed[s]

\* The application asks for the next message of the session.
IterNext ==
    LET s == UserSession IN
    /\ iterPc[s] \in {"idle", "stopped"}
    /\ IF anext_stops(s)
       THEN /\ iterPc' = Update(iterPc, s, "stopped")
            /\ UNCHANGED <<queue, iterated>>
       ELSE IF queue[s] # <<>>
            THEN /\ queue' = Update(queue, s, Tail(queue[s]))
                 /\ iterated' = Update(iterated, s, Append(iterated[s], Head(queue[s]).n))
                 /\ UNCHANGED iterPc
            ELSE /\ iterPc' = Update(iterPc, s, "blocked")
                 /\ UNCHANGED <<queue, iterated>>
    /\ UNCHANGED <<closed, readTask, callbacks, pending, future, reqPc, reqTimeout, received,
                   cbLog, enqueued, published, exitPc, sendResult, muxVars, dispatchVars, codecVars>>

\* queue.get() of a blocked __anext__ is woken by a put.
IterWake ==
    LET s == UserSession IN
    /\ iterPc[s] = "blocked"
    /\ queue[s] # <<>>
    /\ queue' = Update(queue, s, Tail(queue[s]))
    /\ iterated' = Update(iterated, s, Append(iterated[s], Head(queue[s]).n))
    /\ iterPc' = Update(iterPc, s, "idle")
    /\ UNCHANGED <<closed, readTask, callbacks, pending, future, reqPc, reqTimeout, received,
                   cbLog, enqueued, published, exitPc, sendResult, muxVars, dispatchVars, codecVars>>

\* ------------------------------------------------------------------ multiplexer
\* The sessions in the order listen_for_session hands them out.
AcceptOrder == <<"s1", "s2">>

Accepted == {s \in Sessions : reader[s] # "none"}

ReaderOver(s) == reader[s] \in {"done", "cancelled"}

\* app.py:361-364  the first __anext__ of messages(): the listener task is
\* created and the loop waits on the fan-in queue.
MuxStart ==
    /\ muxPc = "start"
    /\ listener' = "running"
    /\ muxPc' = "wait"
    /\ UNCHANGED <<sessionVars, dispatchVars, codecVars, reader, readerCancel, sessionTasks, messageQueue, muxResult,
                   gathered, yielded, connectCalls, disconnectCalls>>

\* app.py:354-359 with listen() (301-310): a session is accepted and its reader
\* task is created and recorded.
ListenerAccept(s) ==
    /\ listener = "running"
    /\ reader[s] = "none"
    /\ \E i \in 1..Len(AcceptOrder) : AcceptOrder[i] = s /\ Cardinality(Accepted) = i - 1
    /\ reader' = Update(reader, s, "created")
    /\ sessionTasks' = sessionTasks \cup {s}
    /\ UNCHANGED <<sessionVars, dispatchVars, codecVars, listener, readerCancel, messageQueue, muxPc, muxResult,
                   gathered, yielded, connectCalls, disconnectCalls>>

\* listen_for_session raises: the listener task ends with that exception.
ListenerFail ==
    /\ listener = "running"
    /\ listener' = "failed"
    /\ UNCHANGED <<sessionVars, dispatchVars, codecVars, reader, readerCancel, sessionTasks, messageQueue, muxPc,
                   muxResult, gathered, yielded, connectCalls, disconnectCalls>>

\* The CancelledError of listener_task.cancel() reaches the listener.
ListenerCancelled ==
    /\ listener = "cancelling"
    /\ listener' = "cancelled"
    /\ UNCHANGED <<sessionVars, dispatchVars, codecVars, reader, readerCancel, sessionTasks, messageQueue, muxPc,
                   muxResult, gathered, yielded, connectCalls, disconnectCalls>>

\* Fault variant of Discard: the done callback clears the live set.
DiscardAll(s) == sessionTasks' = {}

\* task.add_done_callback(session_tasks.discard)
Discard(s) == sessionTasks' = sessionTasks \ {s}

\* app.py:346-352  finally: the disconnect hook, its exception swallowed
Disconnect(s) == disconnectCalls' = Update(disconnectCalls, s, disconnectCalls[s] + 1)

\* app.py:333-342  the reader runs up to its first suspension: the connect hook
\* (its exception swallowed), __aenter__, and __anext__ on the empty queue. The
\* hook may register a callback on the session.
ReaderStart(s, cbs) ==
    /\ reader[s] = "created"
    /\ ~readerCancel[s]
    /\ connectCalls' = Update(connectCalls, s, connectCalls[s] + 1)
    /\ IF cbs = <<>> THEN UNCHANGED callbacks ELSE on_message(s, cbs[1])
    /\ aenter(s)
    /\ reader' = Update(reader, s, "iterating")
    /\ UNCHANGED <<closed, queue, pending, future, reqPc, reqTimeout, received,
                   cbLog, enqueued, published, exitPc, iterPc, iterated, sendResult,
                   listener, readerCancel, sessionTasks, messageQueue, muxPc, muxResult,
                   gathered, yielded, disconnectCalls, dispatchVars, codecVars>>

\* Fault variant of ReaderForward: the message is put on message_queue twice.
ReaderForwardTwice(s) ==
    /\ reader[s] = "iterating"
    /\ ~readerCancel[s]
    /\ queue[s] # <<>>
    /\ queue' = Update(queue, s, Tail(queue[s]))
    /\ messageQueue' = messageQueue \o <<(<<s, Head(queue[s])>>), (<<s, Head(queue[s])>>)>>
    /\ UNCHANGED <<closed, readTask, callbacks, pending, future, reqPc, reqTimeout, received,
                   cbLog, enqueued, published, exitPc, iterPc, iterated, sendResult,
                   listener, reader, readerCancel, sessionTasks, muxPc, muxResult,
                   gathered, yielded, connectCalls, disconnectCalls, dispatchVars, codecVars>>

\* app.py:342-343  queue.get() returns a message and it is put on message_queue.
ReaderForward(s) ==
    /\ reader[s] = "iterating"
    /\ ~readerCancel[s]
    /\ queue[s] # <<>>
    /\ queue' = Update(queue, s, Tail(queue[s]))
    /\ messageQueue' = Append(messageQueue, <<s, Head(queue[s])>>)
    /\ UNCHANGED <<closed, readTask, callbacks, pending, future, reqPc, reqTimeout, received,
                   cbLog, enqueued, published, exitPc, iterPc, iterated, sendResult,
                   listener, reader, readerCancel, sessionTasks, muxPc, muxResult,
                   gathered, yielded, connectCalls, disconnectCalls, dispatchVars, codecVars>>

\* The CancelledError of task.cancel() reaches the reader. A task that never ran
\* ends there. In __anext__ (session.py:66-67) it becomes StopAsyncIteration:
\* the async for ends, __aexit__ runs and then the finally of session_reader.
ReaderCancelled(s) ==
    /\ readerCancel[s]
    /\ reader[s] \in {"created", "iterating"}
    /\ readerCancel' = Update(readerCancel, s, FALSE)
    /\ IF reader[s] = "created"
       THEN /\ reader' = Update(reader, s, "cancelled")
            /\ UNCHANGED <<closed, readTask, disconnectCalls>>
       ELSE /\ aexit(s)
            /\ IF ReadTaskOver(s)
               THEN /\ Disconnect(s)
                    /\ reader' = Update(reader, s, "done")
               ELSE /\ reader' = Update(reader, s, "exiting")
                    /\ UNCHANGED disconnectCalls
    /\ UNCHANGED <<sessionTasks, queue, callbacks, pending, future, reqPc, reqTimeout, received,
                   cbLog, enqueued, published, exitPc, iterPc, iterated, sendResult,
                   listener, messageQueue, muxPc, muxResult, gathered, yielded, connectCalls, dispatchVars, codecVars>>

\* await self._read_task in __aexit__ is over: the reader leaves the scope, runs
\* its finally and ends.
ReaderExit(s) ==
    /\ reader[s] = "exiting"
    /\ ReadTaskOver(s)
    /\ Disconnect(s)
    /\ reader' = Update(reader, s, "done")
    /\ UNCHANGED <<sessionVars, dispatchVars, codecVars, listener, readerCancel, sessionTasks, messageQueue,
                   muxPc, muxResult, gathered, yielded, connectCalls>>

\* app.py:359  the done callback of a finished reader task, which the event loop
\* calls after the task has ended.
ReaderDone(s) ==
    /\ ReaderOver(s)
    /\ s \in sessionTasks
    /\ Discard(s)
    /\ UNCHANGED <<sessionVars, dispatchVars, codecVars, listener, reader, readerCancel, messageQueue,
                   muxPc, muxResult, gathered, yielded, connectCalls, disconnectCalls>>

\* Fault variant of ListenerCrashed: the loop never looks at the listener task.
ListenerNeverChecked == FALSE

\* app.py:366-369  listener_task.done() with an exception
ListenerCrashed == listener = "failed"

\* app.py:369  raise exc, which runs the finally of messages()
Raise(how) ==
    /\ muxResult' = how
    /\ muxPc' = "teardown"

\* app.py:364-371  the top of the while loop
LoopTop == IF ListenerCrashed THEN Raise("raised")
           ELSE muxPc' = "wait" /\ UNCHANGED muxResult

\* Fault variant of MuxGet: the newest pair of message_queue is yielded first.
MuxGetNewest ==
    /\ muxPc = "wait"
    /\ messageQueue # <<>>
    /\ messageQueue' = SubSeq(messageQueue, 1, Len(messageQueue) - 1)
    /\ yielded' = Update(yielded, messageQueue[Len(messageQueue)][1],
                         Append(yielded[messageQueue[Len(messageQueue)][1]],
                                messageQueue[Len(messageQueue)][2].n))
    /\ muxPc' = "yield"
    /\ UNCHANGED <<sessionVars, dispatchVars, codecVars, listener, reader, readerCancel, sessionTasks, muxResult,
                   gathered, connectCalls, disconnectCalls>>

\* app.py:374-378  wait_for(message_queue.get()) returns and the pair is yielded.
TakePair ==
    /\ muxPc = "wait"
    /\ messageQueue # <<>>
    /\ messageQueue' = Tail(messageQueue)
    /\ yielded' = Update(yielded, Head(messageQueue)[1],
                         Append(yielded[Head(messageQueue)[1]], Head(messageQueue)[2].n))
    /\ muxPc' = "yield"
    /\ UNCHANGED <<sessionVars, listener, reader, readerCancel, sessionTasks, muxResult,
                   gathered, connectCalls, disconnectCalls>>

\* The pair goes to a consumer that is not the dispatch loop.
MuxGet == TakePair /\ UNCHANGED <<dispatchVars, codecVars>>

\* app.py:379-380  the 0.1 s timer of wait_for fires: continue
MuxTimeout ==
    /\ muxPc = "wait"
    /\ LoopTop
    /\ UNCHANGED <<sessionVars, dispatchVars, codecVars, listener, reader, readerCancel, sessionTasks, messageQueue,
                   gathered, yielded, connectCalls, disconnectCalls>>

\* The consumer asks for the next pair: the generator resumes after its yield.
MuxNext ==
    /\ muxPc = "yield"
    /\ LoopTop
    /\ UNCHANGED <<sessionVars, dispatchVars, codecVars, listener, reader, readerCancel, sessionTasks, messageQueue,
                   gathered, yielded, connectCalls, disconnectCalls>>

\* The consumer stops iterating: aclose() throws GeneratorExit at the yield.
MuxClose ==
    /\ muxPc = "yield"
    /\ Raise("closed")
    /\ UNCHANGED <<sessionVars, dispatchVars, codecVars, listener, reader, readerCancel, sessionTasks, messageQueue,
                   gathered, yielded, connectCalls, disconnectCalls>>

\* The consumer's task is cancelled while the generator waits on the queue.
MuxCancel ==
    /\ muxPc = "wait"
    /\ Raise("cancelled")
    /\ UNCHANGED <<sessionVars, dispatchVars, codecVars, listener, reader, readerCancel, sessionTasks, messageQueue,
                   gathered, yielded, connectCalls, disconnectCalls>>

\* app.py:391-395  every task of session_tasks is cancelled, and gathered
CancelReaders ==
    /\ readerCancel' = [s \in Sessions |-> s \in sessionTasks /\ ~ReaderOver(s)]
    /\ gathered' = sessionTasks
    /\ muxPc' = IF sessionTasks = {} THEN "closed" ELSE "gather"

\* app.py:384-389  the finally of messages(): the listener is cancelled and
\* awaited unless it is done, in which case the readers are cancelled at once.
TeardownListener ==
    /\ muxPc = "teardown"
    /\ IF listener = "running"
       THEN /\ listener' = "cancelling"
            /\ muxPc' = "await_listener"
            /\ UNCHANGED <<readerCancel, gathered>>
       ELSE /\ CancelReaders
            /\ UNCHANGED listener
    /\ UNCHANGED <<sessionVars, dispatchVars, codecVars, reader, sessionTasks, messageQueue, muxResult, yielded,
                   connectCalls, disconnectCalls>>

\* await listener_task raises the CancelledError that is swallowed.
TeardownReaders ==
    /\ muxPc = "await_listener"
    /\ listener = "cancelled"
    /\ CancelReaders
    /\ UNCHANGED <<sessionVars, dispatchVars, codecVars, listener, reader, sessionTasks, messageQueue, muxResult,
                   yielded, connectCalls, disconnectCalls>>

\* Fault variant of GatherReturns: the generator closes without waiting for the
\* gathered tasks.
GatherReturnsEarly ==
    /\ muxPc = "gather"
    /\ muxPc' = "closed"
    /\ UNCHANGED <<sessionVars, dispatchVars, codecVars, listener, reader, readerCancel, sessionTasks, messageQueue,
                   muxResult, gathered, yielded, connectCalls, disconnectCalls>>

\* asyncio.gather(..., return_exceptions=True) returns: every gathered task is
\* over, and its discard callback, added before the one of gather, has run.
GatherReturns ==
    /\ muxPc = "gather"
    /\ \A s \in gathered : ReaderOver(s) /\ s \notin sessionTasks
    /\ muxPc' = "closed"
    /\ UNCHANGED <<sessionVars, dispatchVars, codecVars, listener, reader, readerCancel, sessionTasks, messageQueue,
                   muxResult, gathered, yielded, connectCalls, disconnectCalls>>

MuxReceive(s) == \E data \in MuxFrames(NextNumber(s)) : ReadLoopReceive(s, data)

\* ------------------------------------------------------------------ dispatch
\* A registration of app.on_message. The discriminator "None" is the catch-all;
\* the value "null" is None, which is also what a registration made without a
\* value holds.
Registration(disc, val) == [discriminator |-> disc, value |-> val]

Registrations ==
    {Registration("None", "null")}
    \cup {Registration(disc, val) : disc \in {"type", "kind"}, val \in {"null", "prompt"}}

\* A decoded message as the dispatch loop sees it: text, or a mapping whose key
\* "type" is absent, null, 'prompt' or 'other'. No message has a key "kind".
Message(form, n, type) == [form |-> form, rid |-> NoId, n |-> n, type |-> type]

Messages(n) ==
    {Message("text", n, "absent")}
    \cup {Message("dict", n, type) : type \in {"absent", "null", "prompt", "other"}}

\* app.py:67-83  self._message_handlers.append(...)
app_on_message(disc, val) ==
    messageHandlers' = Append(messageHandlers, Registration(disc, val))

RegisterHandler ==
    \E reg \in Registrations :
        /\ runPc = "idle"
        /\ Len(messageHandlers) < MaxHandlers
        /\ app_on_message(reg.discriminator, reg.value)
        /\ UNCHANGED <<running, runPc, current, runLog, dispatched, errorsLogged, sessionVars, muxVars, codecVars>>

\* app.py:116-118
stop == running' = FALSE

Stop ==
    /\ running
    /\ stop
    /\ UNCHANGED <<messageHandlers, runPc, current, runLog, dispatched, errorsLogged, sessionVars, muxVars, codecVars>>

\* msg.get(disc): the value under the key, None when the key is missing
Get(msg, disc) == IF disc = "type" /\ msg.type # "absent" THEN msg.type ELSE "null"

\* app.py:187  isinstance(msg, dict) and msg.get(disc) == val
Matches(msg, reg) == msg.form = "dict" /\ Get(msg, reg.discriminator) = reg.value

\* app.py:161-166  the handler of the first registration without discriminator
\* (0: catch_all stays None)
RECURSIVE CatchAllFrom(_)
CatchAllFrom(i) ==
    IF i > Len(messageHandlers) THEN 0
    ELSE IF messageHandlers[i].discriminator = "None" THEN i
    ELSE CatchAllFrom(i + 1)

catch_all == CatchAllFrom(1)

\* app.py:177-196  the handlers the for loop calls, from registration i on
RECURSIVE FilteredCalls(_, _)
FilteredCalls(msg, i) ==
    IF i > Len(messageHandlers) THEN <<>>
    ELSE IF messageHandlers[i].discriminator = "None" THEN FilteredCalls(msg, i + 1)
    ELSE IF Matches(msg, messageHandlers[i]) THEN <<i>>
    ELSE FilteredCalls(msg, i + 1)

\* app.py:176-212  the handlers called for msg, in call order
HandlerCalls(msg) ==
    LET filtered == FilteredCalls(msg, 1)
    IN IF filtered # <<>> THEN filtered
       ELSE IF catch_all # 0 THEN <<catch_all>>
       ELSE <<>>

IsError(entry) == entry.record = "error"

\* What handling msg leaves behind: per call the handler and, when it raised,
\* the logger.error record; the logger.warning record when nothing was called.
BodyLog(msg, out) ==
    LET calls == HandlerCalls(msg)
    IN IF calls = <<>> THEN <<[handler |-> 0, record |-> "warning"]>>
       ELSE [i \in 1..Len(calls) |->
                [handler |-> calls[i], record |-> IF out = "raises" THEN "error" ELSE "none"]]

\* Fault variant of LoopBody: the exception of a handler leaves the loop.
LoopBodyUncaught(out) ==
    IF ~running
    THEN /\ runPc' = "done"
         /\ UNCHANGED <<runLog, dispatched, errorsLogged>>
    ELSE IF out = "raises" /\ HandlerCalls(current[2]) # <<>>
         THEN /\ runPc' = "raised"
              /\ UNCHANGED <<runLog, dispatched, errorsLogged>>
         ELSE /\ runLog' = BodyLog(current[2], out)
              /\ dispatched' = dispatched + 1
              /\ UNCHANGED errorsLogged
              /\ runPc' = "iterating"

\* app.py:172-212  the body of the async for; out is what the handler does.
LoopBody(out) ==
    IF ~running
    THEN /\ runPc' = "done"
         /\ UNCHANGED <<runLog, dispatched, errorsLogged>>
    ELSE /\ runLog' = BodyLog(current[2], out)
         /\ dispatched' = dispatched + 1
         /\ errorsLogged' = errorsLogged + Len(SelectSeq(BodyLog(current[2], out), IsError))
         /\ runPc' = "iterating"

HandlerOutcomes == {"returns", "raises"}

\* app.py:158-171  _run_async up to its first wait on the stream
RunStart ==
    /\ runPc = "idle"
    /\ runPc' = IF messageHandlers = <<>> THEN "raised" ELSE "iterating"
    /\ UNCHANGED <<messageHandlers, running, current, runLog, dispatched, errorsLogged, sessionVars, muxVars, codecVars>>

\* The stream hands the loop its next pair.
StreamYields ==
    \E s \in Sessions : \E msg \in Messages(dispatched + 1) :
        /\ runPc = "iterating"
        /\ dispatched < MaxMsgs
        /\ current' = <<s, msg>>
        /\ runPc' = "body"
        /\ UNCHANGED <<messageHandlers, running, runLog, dispatched, errorsLogged,
                       sessionVars, muxVars, codecVars>>

Dispatch ==
    \E out \in HandlerOutcomes :
        /\ runPc = "body"
        /\ LoopBody(out)
        /\ UNCHANGED <<messageHandlers, running, current, sessionVars, muxVars, codecVars>>

\* ------------------------------------------------------------------ specifications
\* PASlimSession.__init__ for every session, and messages() not yet started.
ObjectsInit ==
    /\ closed = [s \in Sessions |-> FALSE]
    /\ queue = [s \in Sessions |-> <<>>]
    /\ readTask = [s \in Sessions |-> "none"]
    /\ callbacks = [s \in Sessions |-> <<>>]
    /\ pending = [s \in Sessions |-> {}]
    /\ future = [r \in RequestIds |-> [state |-> "none", result |-> NoReply]]
    /\ reqPc = [r \in RequestIds |-> "idle"]
    /\ reqTimeout = [r \in RequestIds |-> "None"]
    /\ received = [s \in Sessions |-> <<>>]
    /\ cbLog = [s \in Sessions |-> <<>>]
    /\ enqueued = [s \in Sessions |-> <<>>]
    /\ published = [s \in Sessions |-> 0]
    /\ exitPc = [s \in Sessions |-> "idle"]
    /\ iterPc = [s \in Sessions |-> "idle"]
    /\ iterated = [s \in Sessions |-> <<>>]
    /\ sendResult = "none"
    /\ listener = "none"
    /\ reader = [s \in Sessions |-> "none"]
    /\ readerCancel = [s \in Sessions |-> FALSE]
    /\ sessionTasks = {}
    /\ messageQueue = <<>>
    /\ muxPc = "start"
    /\ muxResult = "none"
    /\ gathered = {}
    /\ yielded = [s \in Sessions |-> <<>>]
    /\ connectCalls = [s \in Sessions |-> 0]
    /\ disconnectCalls = [s \in Sessions |-> 0]

\* PASlimApp.__init__ but for the registrations
AppInit ==
    /\ codecPayload = Value("none", "")
    /\ codecData = [raised |-> FALSE, value |-> Value("none", "")]
    /\ codecDecoded = [raised |-> FALSE, value |-> Value("none", "")]
    /\ codecPc = "idle"
    /\ running = TRUE
    /\ runPc = "idle"
    /\ current = <<>>
    /\ runLog = <<>>
    /\ dispatched = 0
    /\ errorsLogged = 0

Init == ObjectsInit /\ AppInit /\ messageHandlers = <<>>

\* The application module was imported: its decorators registered a handler
\* for 'prompt' messages and a catch-all.
RunRegistry == <<Registration("type", "prompt"), Registration("None", "null")>>

RunInit == ObjectsInit /\ AppInit /\ messageHandlers = RunRegistry

\* The frames of a peer that answers requests, and of one that only talks.
RequestReceive == \E data \in SessionFrames(NextNumber(UserSession)) : ReadLoopReceive(UserSession, data)

PlainReceive == \E data \in MuxFrames(NextNumber(UserSession)) : ReadLoopReceive(UserSession, data)

Scope ==
    \/ Enter
    \/ ExitCall
    \/ ExitReturn

ReadLoopEnds ==
    \/ ReadLoopTransportError(UserSession)
    \/ ReadLoopEnd(UserSession)
    \/ ReadLoopCancelled(UserSession)

UnansweredRequests ==
    \/ \E r \in RequestIds, tmo \in TimeoutValues, out \in SendOutcomes : RequestCall(r, tmo, out)
    \/ \E r \in RequestIds : RequestTimerFires(r)
    \/ \E r \in RequestIds : RequestTimeoutRaise(r)
    \/ \E r \in RequestIds : RequestCancel(r)
    \/ \E r \in RequestIds : RequestCancelRaise(r)

Requests == UnansweredRequests \/ \E r \in RequestIds : RequestReturn(r)

\* One session used by an application that registers callbacks and makes
\* requests, with a peer that sends any frame.
RequestNext == Scope \/ OnMessage \/ Requests \/ RequestReceive \/ ReadLoopEnds

RequestSpec == Init /\ [][RequestNext]_vars

\* One session used by an application that sends, requests and iterates, with a
\* peer that sends messages of its own.
ScopeNext ==
    \/ Scope
    \/ \E out \in SendOutcomes : Send(out)
    \/ UnansweredRequests
    \/ IterNext
    \/ IterWake
    \/ PlainReceive
    \/ ReadLoopEnds

ScopeSpec == Init /\ [][ScopeNext]_vars

\* The multiplex stream: the listener, one reader and one receive loop per
\* accepted session, and the consumer of messages().
Next ==
    \/ MuxStart
    \/ \E s \in Sessions : ListenerAccept(s)
    \/ ListenerFail
    \/ ListenerCancelled
    \/ \E s \in Sessions, cbs \in {<<>>, <<"cbRaises">>} : ReaderStart(s, cbs)
    \/ \E s \in Sessions : ReaderForward(s)
    \/ \E s \in Sessions : ReaderCancelled(s)
    \/ \E s \in Sessions : ReaderExit(s)
    \/ \E s \in Sessions : ReaderDone(s)
    \/ \E s \in Sessions : MuxReceive(s)
    \/ \E s \in Sessions : ReadLoopTransportError(s)
    \/ \E s \in Sessions : ReadLoopCancelled(s)
    \/ MuxGet
    \/ MuxTimeout
    \/ MuxNext
    \/ MuxClose
    \/ MuxCancel
    \/ TeardownListener
    \/ TeardownReaders
    \/ GatherReturns

Spec == Init /\ [][Next]_vars

\* The codec, applied to every payload and to every byte string.
CodecNext == Encode \/ PeerSends \/ Decode

CodecSpec == Init /\ [][CodecNext]_vars

\* The dispatch loop of _run_async over a stream that yields any message.
DispatchNext ==
    \/ RegisterHandler
    \/ RunStart
    \/ Stop
    \/ StreamYields
    \/ Dispatch

DispatchSpec == Init /\ [][DispatchNext]_vars

\* _run_async over the multiplex stream: the dispatch loop is the consumer of
\* messages(), and the peers send text and 'prompt' mappings.
RunFrames(n) == {Message("text", n, "absent"), Message("dict", n, "prompt")}

RunReceive(s) == \E data \in RunFrames(NextNumber(s)) : ReadLoopReceive(s, data)

\* app.py:171  the first __anext__ of the async for starts messages()
RunOpens == runPc = "iterating" /\ MuxStart

\* app.py:171  the async for receives the pair that messages() yields
RunGet ==
    /\ runPc = "iterating"
    /\ TakePair
    /\ current' = Head(messageQueue)
    /\ runPc' = "body"
    /\ UNCHANGED <<messageHandlers, running, runLog, dispatched, errorsLogged, codecVars>>

\* app.py:171  the loop body is over: the async for asks for the next pair
RunAsks == runPc = "iterating" /\ MuxNext

RunNext ==
    \/ RunStart
    \/ RunOpens
    \/ \E s \in Sessions : ListenerAccept(s)
    \/ \E s \in Sessions : ReaderStart(s, <<>>)
    \/ \E s \in Sessions : RunReceive(s)
    \/ \E s \in Sessions : ReaderForward(s)
    \/ MuxTimeout
    \/ RunGet
    \/ Dispatch
    \/ RunAsks

RunSpec == RunInit /\ [][RunNext]_vars

\* ------------------------------------------------------------------ fairness
\* The event loop runs every task that is ready and fires every timer that is
\* set; what the peer, the transport and the application do next is up to them.
RequestFairness ==
    /\ WF_vars(ExitReturn)
    /\ WF_vars(ReadLoopEnd(UserSession))
    /\ WF_vars(ReadLoopCancelled(UserSession))
    /\ \A r \in RequestIds :
          /\ WF_vars(RequestReturn(r))
          /\ WF_vars(RequestTimerFires(r))
          /\ WF_vars(RequestTimeoutRaise(r))
          /\ WF_vars(RequestCancelRaise(r))

FairRequestSpec == RequestSpec /\ RequestFairness

\* MuxNext is the consumer that keeps iterating unless it closes the stream.
MuxFairness ==
    /\ WF_vars(ListenerCancelled)
    /\ WF_vars(MuxGet)
    /\ WF_vars(MuxTimeout)
    /\ WF_vars(MuxNext)
    /\ WF_vars(TeardownListener)
    /\ WF_vars(TeardownReaders)
    /\ WF_vars(GatherReturns)
    /\ \A s \in Sessions :
          /\ WF_vars(\E cbs \in {<<>>, <<"cbRaises">>} : ReaderStart(s, cbs))
          /\ WF_vars(ReaderForward(s))
          /\ WF_vars(ReaderCancelled(s))
          /\ WF_vars(ReaderExit(s))
          /\ WF_vars(ReaderDone(s))
          /\ WF_vars(ReadLoopCancelled(s))

FairSpec == Spec /\ MuxFairness

\* A handler that is awaited returns or raises.
RunFairness ==
    /\ WF_vars(RunStart)
    /\ WF_vars(RunOpens)
    /\ WF_vars(RunGet)
    /\ WF_vars(Dispatch)
    /\ WF_vars(RunAsks)
    /\ WF_vars(MuxTimeout)
    /\ \A s \in Sessions :
          /\ WF_vars(ReaderStart(s, <<>>))
          /\ WF_vars(ReaderForward(s))

FairRunSpec == RunSpec /\ RunFairness

\* _run_async over the multiplex stream in an application that is told to stop,
\* by a handler, another task or the signal handler of run().
StopNext == RunNext \/ Stop

StopSpec == RunInit /\ [][StopNext]_vars

\* Nothing obliges stop() to be called or a peer to send.
FairStopSpec == StopSpec /\ RunFairness

\* ------------------------------------------------------------------ properties
Last(seq) == seq[Len(seq)]

\* Where a request() call has raised.
RequestRaised == RequestOver \ {"returned"}

\* C1: a request() that awaits its reply when the session is closed is
\* eventually released with an error, with or without a timeout.
C1_ReleasedOnClose ==
    \A r \in RequestIds :
        (closed[UserSession] /\ reqPc[r] = "waiting" /\ future[r].state = "pending")
            ~> (reqPc[r] \in RequestRaised)

\* C2: once a request() call that registered its waiter has returned or raised,
\* by whatever path, the correlation table no longer holds its id.
C2_NoLeakedWaiters ==
    \A r \in RequestIds :
        reqPc[r] \in RequestOver \ {"raised_closed"} => r \notin pending[UserSession]

\* C1 is the case of a request() made without a timer, closed before its reply.
C1_Witness ==
    \E r \in RequestIds :
        /\ closed[UserSession]
        /\ exitPc[UserSession] = "returned"
        /\ reqPc[r] = "waiting"
        /\ ~TimerArmed(reqTimeout[r])

\* get_message raised on session s.
TransportFailed(s) == received[s] # <<>> /\ Last(received[s]).form = "error"

\* C3: a receive failure on a session that is not closed ends the session's
\* reader task, and the disconnect hook is called for the session.
C3_ReceiveFailureEndsReader ==
    \A s \in Sessions :
        (TransportFailed(s) /\ reader[s] = "iterating" /\ muxResult = "none")
            ~> (reader[s] = "done" /\ disconnectCalls[s] = 1)

\* The stream ended because the consumer closed it or was cancelled.
ConsumerLeft == muxResult \in {"closed", "cancelled"}

\* C4: a failure of the accept loop is raised to a consumer that keeps
\* iterating, and the generator does not go back to waiting on the fan-in
\* queue once it has taken one more pair.
C4_AcceptFailureRaised ==
    /\ (listener = "failed") ~> ((muxPc = "closed" /\ muxResult = "raised") \/ ConsumerLeft)
    /\ [][listener = "failed" /\ muxPc # "wait" => muxPc' # "wait"]_vars

C4_Witness ==
    /\ listener = "failed"
    /\ muxPc = "closed"
    /\ muxResult = "raised"
    /\ \E s \in Sessions : yielded[s] # <<>> /\ queue[s] # <<>>

\* C5: when the teardown of messages() is over, the listener, every reader and
\* every receive loop is over and the stream ended the way it was ended; the
\* readers are cancelled only once the listener is over.
C5_TeardownComplete ==
    /\ muxPc = "closed" =>
          /\ listener \in {"failed", "cancelled"}
          /\ \A s \in Sessions : reader[s] \in {"none", "done", "cancelled"}
          /\ \A s \in Sessions : ReadTaskOver(s)
          /\ sessionTasks = {}
          /\ muxResult \in {"raised", "closed", "cancelled"}
    /\ (muxPc = "gather" \/ \E s \in Sessions : readerCancel[s]) =>
          listener \in {"failed", "cancelled"}

C5_Witness ==
    /\ muxPc = "closed"
    /\ listener = "cancelled"
    /\ \E s, t \in Sessions : /\ reader[s] = "done" /\ readTask[s] = "cancelled"
                              /\ reader[t] = "cancelled"

\* The receive loop of s ended on a frame of s.
EndedByOwnFrame(s) ==
    /\ received[s] # <<>>
    /\ \/ Last(received[s]).form \in {"error", "undecodable"}
       \/ Last(received[s]).rid = Unhashable

\* Frame k of session s is a message that carries no _request_id.
IsPlain(s, k) ==
    /\ Len(received[s]) >= k
    /\ received[s][k].form \in {"bytes", "text", "dict"}
    /\ received[s][k].rid = NoId

InSeq(x, seq) == \E i \in 1..Len(seq) : seq[i] = x

\* Every message received on s so far that carries no _request_id has been
\* yielded. Frames are never unreceived and yielded never shrinks, so a message
\* received at any time is yielded once this holds afterwards.
AllYielded(s) == \A k \in 1..Len(received[s]) : IsPlain(s, k) => InSeq(k, yielded[s])

\* C6: a receive failure on one session leaves every other session's receive
\* loop and reader alone and raises nothing on the stream, and the messages
\* of the other sessions are still yielded.
C6_FailureIsolation ==
    /\ [](\A s, t \in Sessions :
            (s # t /\ TransportFailed(s)) =>
                /\ readTask[t] = "finished" => EndedByOwnFrame(t)
                /\ muxResult = "none" => reader[t] \in {"none", "created", "iterating"}
                /\ muxResult = "raised" => listener = "failed")
    /\ \A s, t \in Sessions :
          (s # t /\ TransportFailed(s)) ~> (AllYielded(t) \/ muxResult # "none")

C6_Witness ==
    \E s, t \in Sessions :
        /\ s # t
        /\ received[s] = <<Frame("error", NoId, 1)>>
        /\ Len(yielded[t]) = MaxMsgs
        /\ readTask[t] = "running"
        /\ muxResult = "none"

NoDuplicates(seq) == \A i, j \in 1..Len(seq) : seq[i] = seq[j] => i = j

\* C7: every message that carries no _request_id is yielded by the stream
\* exactly once, as long as the consumer iterates and the accept loop lives.
C7_ExactlyOnce ==
    /\ [](\A s \in Sessions :
            /\ NoDuplicates(yielded[s])
            /\ \A i \in 1..Len(yielded[s]) : IsPlain(s, yielded[s][i]))
    /\ \A s \in Sessions :
          []<>(AllYielded(s) \/ muxResult # "none" \/ listener = "failed")

C7_Witness ==
    /\ \A s \in Sessions : Len(yielded[s]) = MaxMsgs
    /\ muxResult = "none"
    /\ listener = "running"

Increasing(seq) == \A i, j \in 1..Len(seq) : i < j => seq[i] < seq[j]

NonDecreasing(seq) == \A i, j \in 1..Len(seq) : i < j => seq[i] <= seq[j]

\* The frame numbers of session s on the fan-in queue, in queue order.
OnFanIn(s) ==
    LET mine == SelectSeq(messageQueue, LAMBDA p : p[1] = s)
    IN [i \in 1..Len(mine) |-> mine[i][2].n]

\* C8: the messages of one session reach its callbacks, its inbound queue, the
\* fan-in queue and the consumer in the order the transport delivered them.
C8_PerSessionOrder ==
    \A s \in Sessions :
        /\ NonDecreasing([i \in 1..Len(cbLog[s]) |-> cbLog[s][i][2]])
        /\ Increasing(enqueued[s])
        /\ Increasing(yielded[s] \o OnFanIn(s) \o [i \in 1..Len(queue[s]) |-> queue[s][i].n])

C8_Witness ==
    /\ \A s \in Sessions : Len(yielded[s]) = MaxMsgs
    /\ \E s \in Sessions : Len(cbLog[s]) = MaxMsgs

\* The waiters of session s that message m answers: those registered under the
\* id that m carries as _request_id.
WaitersOf(s, m) == {r \in pending[s] : m.form = "dict" /\ m.rid = Uuid(r)}

\* What the callbacks of s are called with, and in which order, for message m.
CallsFor(s, m) == [i \in 1..Len(callbacks[s]) |-> <<callbacks[s][i], m.n>>]

\* C9: a received message resolves a waiter only if it is a mapping that
\* carries the waiter's id, and is then neither passed to a callback nor
\* enqueued; any other message resolves nothing and goes to every callback
\* and then to the inbound queue.
C9_Correlation ==
    [][\A s \in Sessions :
         (Len(received'[s]) > Len(received[s])
            /\ Last(received'[s]).form \in {"bytes", "text", "dict"}) =>
         LET m == Last(received'[s])
         IN /\ \A r \in RequestIds :
                  future'[r] # future[r] =>
                      r \in WaitersOf(s, m) /\ future'[r] = [state |-> "done", result |-> m.n]
            /\ (\E r \in WaitersOf(s, m) : future[r].state = "pending") =>
                  /\ \A r \in WaitersOf(s, m) : future'[r].state = "done"
                  /\ cbLog' = cbLog
                  /\ queue' = queue
            /\ WaitersOf(s, m) = {} =>
                  /\ future' = future
                  /\ cbLog'[s] = cbLog[s] \o CallsFor(s, m)
                  /\ queue'[s] = Append(queue[s], m)
    ]_vars

C11_TimeoutElapses ==
    \A r \in RequestIds :
        (reqPc[r] = "waiting" /\ reqTimeout[r] # "None")
            ~> (reqPc[r] \in {"raised_timeout", "returned", "raised_cancelled"}
                  \/ closed[UserSession])

\* The handler that the routing rule names for msg: the first registration
\* with a discriminator that is a key of msg holding the registered value,
\* else the first catch-all, else none (0).
RuledFiltered(msg) ==
    {i \in 1..Len(messageHandlers) :
        /\ messageHandlers[i].discriminator # "None"
        /\ msg.form = "dict"
        /\ messageHandlers[i].discriminator = "type"
        /\ msg.type # "absent"
        /\ msg.type = messageHandlers[i].value}

RuledCatchAll == {i \in 1..Len(messageHandlers) : messageHandlers[i].discriminator = "None"}

Least(S) == CHOOSE i \in S : \A j \in S : i <= j

RuledHandler(msg) ==
    IF RuledFiltered(msg) # {} THEN Least(RuledFiltered(msg))
    ELSE IF RuledCatchAll # {} THEN Least(RuledCatchAll)
    ELSE 0

\* C12: handling a pair calls exactly the handler the routing rule names and no
\* other, and logs a warning instead when the rule names none.
C12_DispatchRouting ==
    [][(runPc = "body" /\ runPc' = "iterating") =>
          /\ Len(runLog') = 1
          /\ runLog'[1].handler = RuledHandler(current[2])
          /\ runLog'[1].record = "warning" <=> RuledHandler(current[2]) = 0
    ]_vars

RECURSIVE TotalLen(_, _)
TotalLen(f, S) ==
    IF S = {} THEN 0
    ELSE LET s == CHOOSE x \in S : TRUE IN Len(f[s]) + TotalLen(f, S \ {s})

\* C13: a handler that raises is logged and nothing else: the dispatch loop goes
\* on to the next pair, the readers and the stream are as they were, the loop
\* never ends, and every message of every session is still yielded and handled.
C13_HandlerErrorCaught ==
    /\ [][errorsLogged' > errorsLogged =>
             /\ runPc' = "iterating"
             /\ <<reader, readerCancel, readTask, sessionTasks, closed>>'
                    = <<reader, readerCancel, readTask, sessionTasks, closed>>
             /\ <<muxPc, muxResult, listener, messageQueue>>'
                    = <<muxPc, muxResult, listener, messageQueue>>]_vars
    /\ [](runPc \in {"idle", "iterating", "body"})
    /\ []<>(/\ \A s \in Sessions : AllYielded(s)
            /\ dispatched = TotalLen(yielded, Sessions)
            /\ runPc # "body")

\* A handler raised on one message and a later message was handled, with the
\* readers of both sessions still reading.
C13_Witness ==
    /\ errorsLogged >= 1
    /\ dispatched >= 2
    /\ runLog # <<>>
    /\ runLog[1].record = "none"
    /\ \A s \in Sessions : reader[s] = "iterating" /\ readTask[s] = "running"

\* C14: the connect hook of an accepted session is called once, before the
\* session is entered and before any of its messages is yielded; the disconnect
\* hook is called once when the reader task stops, however it stops, and not
\* before.
C14_SessionHooks ==
    \A s \in Sessions :
        /\ connectCalls[s] <= 1
        /\ disconnectCalls[s] <= 1
        /\ (readTask[s] # "none" \/ queue[s] # <<>> \/ yielded[s] # <<>>) => connectCalls[s] = 1
        /\ ReaderOver(s) => connectCalls[s] = 1
        /\ ReaderOver(s) <=> disconnectCalls[s] = 1

\* C15: decode_message raises on no byte string and returns bytes, text or a
\* mapping.
C15_DecodeTotal ==
    codecPc = "decoded" =>
        /\ ~codecDecoded.raised
        /\ codecDecoded.value.form \in {"bytes", "text", "dict"}

\* A payload that holds no NUL.
NulFree(p) == p.chars # "a<NUL>b"

\* C16: what decode_message makes of the encoding of a bytes, text or mapping
\* payload without NUL has the value of the payload; text comes back as the
\* same text, a mapping as an equal mapping, and bytes that are no UTF-8 as
\* the same bytes.
C16_RoundTrip ==
    (codecPc = "decoded" /\ codecData = encode_message(codecPayload)
        /\ codecPayload.form \in {"bytes", "text", "dict"} /\ NulFree(codecPayload)) =>
        /\ ~codecDecoded.raised
        /\ codecDecoded.value.chars = codecPayload.chars
        /\ codecPayload.form \in {"text", "dict"} => codecDecoded.value = codecPayload
        /\ FormOf(codecPayload.chars) = "bytes" => codecDecoded.value = codecPayload

\* C17: no message that the transport delivers ends the receive loop: after
\* get_message returned a message the loop is still running, whatever the
\* message and whatever the state of the waiter it names.
C17_LoopSurvives ==
    [][\A s \in Sessions :
         (readTask[s] = "running"
            /\ Len(received'[s]) > Len(received[s])
            /\ Last(received'[s]).form # "error") => readTask'[s] = "running"
    ]_vars

\* A message without _request_id, or with an id that is hashable and names no
\* waiter of the session.
IsNormal(s, m) ==
    /\ m.form \in {"text", "dict"}
    /\ m.rid # Unhashable
    /\ \A r \in pending[s] : m.rid # Uuid(r)

\* C18: for a normal message the receive loop calls every registered callback
\* in registration order, whether or not one of them raises, then puts the
\* message on the inbound queue, and goes on receiving.
C18_CallbacksThenQueue ==
    [][\A s \in Sessions :
         (Len(received'[s]) > Len(received[s]) /\ IsNormal(s, Last(received'[s]))) =>
            /\ cbLog'[s] = cbLog[s] \o CallsFor(s, Last(received'[s]))
            /\ queue'[s] = Append(queue[s], Last(received'[s]))
            /\ enqueued'[s] = Append(enqueued[s], Last(received'[s]).n)
            /\ readTask'[s] = "running"
    ]_vars

\* Two messages went through a callback that raises and one that does not.
C18_Witness ==
    LET s == UserSession IN
    /\ callbacks[s] = CallbackOrder
    /\ cbLog[s] = <<(<<"cbRaises", 1>>), (<<"cbOk", 1>>), (<<"cbRaises", 2>>), (<<"cbOk", 2>>)>>
    /\ enqueued[s] = <<1, 2>>
    /\ readTask[s] = "running"

\* C19: __aexit__ returns only when the receive task is over, and from the
\* moment it has closed the session (so in every state after it returned) no
\* callback is called, nothing is put on the inbound queue and no frame is taken
\* from the transport for that session.
C19_QuietAfterExit ==
    [][\A s \in Sessions :
         /\ (exitPc[s] = "awaiting" /\ exitPc'[s] = "returned") =>
               /\ closed'[s]
               /\ readTask'[s] # "running"
               /\ readTask'[s] # "cancelling"
         /\ exitPc[s] = "returned" => readTask[s] # "cancelling"
         /\ closed[s] =>
               /\ cbLog'[s] = cbLog[s]
               /\ enqueued'[s] = enqueued[s]
               /\ received'[s] = received[s]
               /\ Len(queue'[s]) <= Len(queue[s])
    ]_vars

\* Exit returned after interrupting a loop that had called callbacks, while the
\* transport has frames left for the session.
C19_Witness ==
    LET s == UserSession IN
    /\ exitPc[s] = "returned"
    /\ readTask[s] = "cancelled"
    /\ callbacks[s] # <<>>
    /\ cbLog[s] # <<>>
    /\ Len(received[s]) < MaxMsgs

\* The receive task does not exist or is over.
NotRunning(s) == readTask[s] \in {"none", "finished", "cancelled"}

\* C20: an exit called again, called after the loop ended by itself, or called
\* on a session that was never entered returns without an error, sets closed and
\* changes nothing else of the session; every exit returns with the session
\* closed and its receive task not running.
C20_ExitIdempotent ==
    /\ [](\A s \in Sessions : exitPc[s] \in {"idle", "awaiting", "returned"})
    /\ [](\A s \in Sessions : (exitPc[s] = "awaiting" /\ NotRunning(s)) => ENABLED ExitReturn)
    /\ [][\A s \in Sessions :
            /\ (exitPc[s] # "awaiting" /\ exitPc'[s] = "awaiting" /\ NotRunning(s)) =>
                  /\ closed'[s]
                  /\ readTask'[s] = readTask[s]
                  /\ <<queue, callbacks, pending, future, received, cbLog, enqueued>>'
                       = <<queue, callbacks, pending, future, received, cbLog, enqueued>>
            /\ (exitPc[s] = "awaiting" /\ exitPc'[s] = "returned") =>
                  /\ closed'[s]
                  /\ NotRunning(s)'
                  /\ readTask'[s] = readTask[s]
       ]_vars

\* Exit returned on a session whose loop had ended at a transport error.
C20_Witness ==
    LET s == UserSession IN
    /\ exitPc[s] = "returned"
    /\ closed[s]
    /\ readTask[s] = "finished"
    /\ received[s] # <<>>
    /\ received[s][Len(received[s])].form = "error"

\* A reader task that was created and has not ended.
ReaderLive(s) == reader[s] \in {"created", "iterating", "exiting"}

\* The live set holds exactly the reader tasks that have not ended.
C21_LiveSetExact == \A s \in Sessions : s \in sessionTasks <=> ReaderLive(s)

\* C21: every accepted session has one reader task, which is in the live set
\* from its creation until after it has ended; the live set changes only by the
\* addition of a new reader and the removal of an ended one, and a reader that
\* has ended is eventually removed by its done callback.
C21_LiveSetTracksReaders ==
    /\ [](\A s \in Sessions : /\ ReaderLive(s) => s \in sessionTasks
                              /\ s \in sessionTasks => reader[s] # "none")
    /\ [][\A s \in Sessions :
            /\ (s \in sessionTasks' /\ s \notin sessionTasks) =>
                  (reader[s] = "none" /\ reader'[s] = "created")
            /\ (s \in sessionTasks /\ s \notin sessionTasks') => ReaderOver(s)
            /\ (reader[s] = "none" /\ reader'[s] # "none") => s \in sessionTasks'
       ]_vars
    /\ \A s \in Sessions : ReaderOver(s) ~> (s \notin sessionTasks)

\* One reader has ended and left the live set while another is still in it.
C21_Witness ==
    /\ ReaderOver("s1")
    /\ "s1" \notin sessionTasks
    /\ ReaderLive("s2")
    /\ "s2" \in sessionTasks

\* C22: once stop() was called on a running application the dispatch loop
\* eventually ends, whether or not a message arrives, and from then on no
\* message is passed to a handler.
C22_GracefulStop ==
    /\ (~running /\ runPc \in {"iterating", "body"}) ~> (runPc = "done")
    /\ [][~running => (dispatched' = dispatched /\ runLog' = runLog)]_vars

====
